---- MODULE Spec2Model ----
(***************************************************************************)
(* Model of the request/response normalisation layer of the frontend:      *)
(*   apiWithTimeout, apiRequest      (frontend/data/data-api.ts)           *)
(*   handleApiError, validateApiResponse   (lib/error-handler)             *)
(* One call of apiRequest is followed from its start to the envelope it    *)
(* returns, and the envelope is then handed to validateApiResponse.        *)
(* JavaScript values are tagged records: the tag t is the typeof of the    *)
(* value ("null" and "array" are kept apart from "object").                *)
(***************************************************************************)
EXTENDS Integers, FiniteSets, Sequences, TLC

VARIABLES
    pc,         \* position of the call: idle, start, fetching, reading,
                \* parsed, catch, returned, raised, done
    method,     \* options.method
    payloadOk,  \* whether JSON.stringify(payload) succeeds
    timeoutMs,  \* options.timeoutMs
    authToken,  \* options.authToken (a JavaScript value)
    now,        \* milliseconds elapsed since the call started
    timer,      \* the setTimeout handle: none, armed, fired, cleared
    aborted,    \* controller.signal.aborted
    lateAbort,  \* history: controller.abort() ran after the fetch had settled
    response,   \* the Response the fetch resolved with
    parsed,     \* the value response.json() resolved with
    exc,        \* the exception caught by apiRequest's catch clause
    logs,       \* number of console.error calls made by this call
    result,     \* the envelope apiRequest returned
    arg,        \* the envelope given to validateApiResponse
    outcome     \* how validateApiResponse ended

vars == <<pc, method, payloadOk, timeoutMs, authToken, now, timer, aborted,
          lateAbort, response, parsed, exc, logs, result, arg, outcome>>

----------------------------------------------------------------------------
(* Bounds of the model *)

MaxTimeout == 2
MaxClock == 4

----------------------------------------------------------------------------
(* JavaScript values *)

Undefined == [t |-> "undefined"]
JNull == [t |-> "null"]
JTrue == [t |-> "boolean", v |-> TRUE]
JFalse == [t |-> "boolean", v |-> FALSE]
Num(n) == [t |-> "number", v |-> n]
Str(s) == [t |-> "string", v |-> s]
JArray == [t |-> "array"]

\* ToBoolean of a value: undefined, null, false, 0 and "" are falsy
Truthy(x) ==
    CASE x.t = "undefined" -> FALSE
      [] x.t = "null" -> FALSE
      [] x.t = "boolean" -> x.v
      [] x.t = "number" -> x.v # 0
      [] x.t = "string" -> x.v # ""
      [] OTHER -> TRUE

Nullish(x) == x.t \in {"undefined", "null"}

\* x.f throws a TypeError when x is null or undefined
GetThrows(x) == Nullish(x)

\* x.f for a value it does not throw on: an absent property reads undefined
Get(x, f) == IF x.t = "object" /\ f \in DOMAIN x THEN x[f] ELSE Undefined

\* x?.f
OptGet(x, f) == IF Nullish(x) THEN Undefined ELSE Get(x, f)

\* a ?? b
Coalesce(a, b) == IF Nullish(a) THEN b ELSE a

\* a || b
OrElse(a, b) == IF Truthy(a) THEN a ELSE b

----------------------------------------------------------------------------
(* Inputs: verbs, responses, bodies *)

HTTPMethod == {"GET", "POST", "PUT", "PATCH", "DELETE"}

Statuses == {200, 204, 400, 404, 500}

StatusTexts == {"", "Status Text"}

\* an error object { status, name, message } of the upstream API
ErrorObject(status, name, message) ==
    [t |-> "object", status |-> status, name |-> name, message |-> message]

\* a parsed body { data, error, meta, message }; Undefined is an absent field
Body(data, error, meta, message) ==
    [t |-> "object", data |-> data, error |-> error, meta |-> meta,
     message |-> message]

Entity == [t |-> "object", id |-> Num(1), title |-> Str("Home")]
Meta == [t |-> "object", pagination |-> Num(1)]

DataValues == {Undefined, JNull, JFalse, Num(0), Str(""), Entity, JArray}

ErrorValues ==
    {Undefined, JNull, JFalse, Str("Not Found"),
     ErrorObject(Num(404), Str("NotFoundError"), Str("not found")),
     ErrorObject(Num(400), Str("ValidationError"), Str("invalid")),
     ErrorObject(Undefined, Str("NotFoundError"), Str("not found")),
     ErrorObject(Num(500), Undefined, Undefined)}

JsonValues ==
    {Body(d, Undefined, m, Undefined) : d \in DataValues, m \in {Undefined, Meta}}
    \cup {Body(Undefined, e, Undefined, msg) :
            e \in ErrorValues, msg \in {Undefined, Str("body message")}}
    \cup {JNull, JFalse, JTrue, Num(0), Num(7), Str(""), Str("text"), JArray}

\* the text of a response body: well formed JSON denoting a value, or not
BodyTexts ==
    {[wellFormed |-> TRUE, denotes |-> v] : v \in JsonValues}
    \cup {[wellFormed |-> FALSE, denotes |-> Str("")],
          [wellFormed |-> FALSE, denotes |-> Str("<html>")]}

Responses ==
    [status : Statuses, statusText : StatusTexts, body : BodyTexts]

\* Response.ok
Ok(r) == r.status >= 200 /\ r.status <= 299

AuthTokens == {Undefined, Str("token")}

ResourceNames == {Undefined, Str("home page")}

NoResponse == [status |-> 0, statusText |-> "", body |-> [wellFormed |-> FALSE, denotes |-> Str("")]]
NotParsed == [t |-> "unread"]
NoExc == [name |-> "", message |-> ""]
NoValue == [t |-> "none"]

----------------------------------------------------------------------------
(* Exceptions *)

AbortError == [name |-> "AbortError", message |-> "This operation was aborted"]
FetchFailed == [name |-> "TypeError", message |-> "fetch failed"]
StringifyFailed == [name |-> "TypeError", message |-> "Converting circular structure to JSON"]
SyntaxError == [name |-> "SyntaxError", message |-> "Unexpected token"]
NullAccess == [name |-> "TypeError", message |-> "Cannot read properties of null"]

----------------------------------------------------------------------------
(* The normalized response envelope *)

SuccessEnvelope(data, meta, status) ==
    [t |-> "object", success |-> JTrue, status |-> Num(status),
     data |-> data, meta |-> meta, error |-> Undefined]

FailureEnvelope(error, status) ==
    [t |-> "object", success |-> JFalse, status |-> Num(status),
     data |-> Undefined, meta |-> Undefined, error |-> error]

----------------------------------------------------------------------------
(* apiWithTimeout *)

\* clearTimeout(timeout): releases an armed timer, no effect on any other
clearTimeout(tm) == IF tm = "armed" THEN "cleared" ELSE tm

\* variant: the timer is cleared after the await, not in a finally clause
SettleTimerOnSuccessOnly(tm, how) ==
    IF how = "resolved" THEN clearTimeout(tm) ELSE tm

\* the finally clause, on each way the awaited fetch settles
\* (how: resolved, rejected, aborted)
SettleTimer(tm, how) == clearTimeout(tm)

----------------------------------------------------------------------------
(* apiRequest *)

\* the request carries a body, which is serialised with JSON.stringify
HasRequestBody(m) == ~(m = "GET" \/ m = "DELETE")

\* variant: the try block ends after the awaited fetch
InTryFetchOnly(step) == step \in {"stringify", "fetch"}

\* the statements of apiRequest that lie inside its try block
InTry(step) == step \in {"stringify", "fetch", "json", "normalize"}

\* where control goes when a step throws
ThrowTarget(step) == IF InTry(step) THEN "catch" ELSE "raised"

\* variant: the verb is compared in the wrong case
SkipsBodyLowerCase(m) == m = "delete"

\* the branch that answers without reading the response body
SkipsBody(m) == m = "DELETE"

\* the envelope of a DELETE request
DeleteEnvelope(r) ==
    IF Ok(r)
    THEN SuccessEnvelope(JTrue, Undefined, r.status)
    ELSE FailureEnvelope(
             ErrorObject(Num(r.status), Str("Error"),
                         Str("Failed to delete resource")),
             r.status)

\* response.json(): the value the body text denotes, or a SyntaxError
JsonParses(b) == b.wellFormed
JsonValue(b) == b.denotes

\* the envelope of a non-2xx response whose body parsed to data (not nullish)
ErrorEnvelope(r, data) ==
    IF Truthy(Get(data, "error"))
    THEN FailureEnvelope(Get(data, "error"), r.status)
    ELSE FailureEnvelope(
             ErrorObject(
                 Num(r.status),
                 Coalesce(OptGet(OptGet(data, "error"), "name"), Str("Error")),
                 Coalesce(OptGet(OptGet(data, "error"), "message"),
                          OrElse(Str(r.statusText), Str("An error occurred")))),
             r.status)

\* the envelope of a 2xx response whose body parsed to data (not nullish)
SuccessResult(r, data) ==
    SuccessEnvelope(
        IF Truthy(Get(data, "data")) THEN Get(data, "data") ELSE data,
        IF Truthy(Get(data, "meta")) THEN Get(data, "meta") ELSE Undefined,
        r.status)

\* variant: the catch clause looks for the wrong exception name
CatchEnvelopeWrongName(e) ==
    IF e.name = "TimeoutError"
    THEN FailureEnvelope(
             ErrorObject(Num(408), Str("TimeoutError"),
                         Str("The request timed out. Please try again.")),
             408)
    ELSE FailureEnvelope(
             ErrorObject(Num(500), Str("NetworkError"), Str(e.message)),
             500)

\* the envelope the catch clause builds from the exception it caught (every
\* exception thrown inside the try block is an Error and has a message)
CatchEnvelope(e) ==
    IF e.name = "AbortError"
    THEN FailureEnvelope(
             ErrorObject(Num(408), Str("TimeoutError"),
                         Str("The request timed out. Please try again.")),
             408)
    ELSE FailureEnvelope(
             ErrorObject(Num(500), Str("NetworkError"), Str(e.message)),
             500)

----------------------------------------------------------------------------
(* handleApiError, validateApiResponse *)

FailedToLoad(resourceName) ==
    IF Truthy(resourceName)
    THEN Str("Failed to load " \o resourceName.v)
    ELSE Str("Failed to load resource")

\* how handleApiError ends: it throws an Error, calls notFound() (which does
\* not return), or returns
handleApiError(data, resourceName) ==
    IF ~Truthy(data)
    THEN [kind |-> "throw", message |-> FailedToLoad(resourceName)]
    ELSE IF OptGet(OptGet(data, "error"), "status") = Num(404)
    THEN [kind |-> "notFound", message |-> Undefined]
    ELSE IF ~Truthy(OptGet(data, "success")) \/ ~Truthy(OptGet(data, "data"))
    THEN [kind |-> "throw",
          message |-> OrElse(OptGet(OptGet(data, "error"), "message"),
                             FailedToLoad(resourceName))]
    ELSE [kind |-> "return", message |-> Undefined]

validateApiResponse(data, resourceName) ==
    LET h == handleApiError(data, resourceName)
    IN  IF h.kind = "return"
        THEN [kind |-> "return", message |-> Undefined, value |-> Get(data, "data")]
        ELSE [kind |-> h.kind, message |-> h.message, value |-> NoValue]

\* envelopes a caller hands to validateApiResponse without calling apiRequest
GivenEnvelopes ==
    {Undefined, JNull}
    \cup {SuccessEnvelope(d, Undefined, 200) : d \in DataValues}
    \cup {FailureEnvelope(e, 404) : e \in ErrorValues}

----------------------------------------------------------------------------
(* The state machine *)

Init ==
    /\ pc = "idle"
    /\ method = "GET"
    /\ payloadOk = TRUE
    /\ timeoutMs = 1
    /\ authToken = Undefined
    /\ now = 0
    /\ timer = "none"
    /\ aborted = FALSE
    /\ lateAbort = FALSE
    /\ response = NoResponse
    /\ parsed = NotParsed
    /\ exc = NoExc
    /\ logs = 0
    /\ result = NoValue
    /\ arg = NoValue
    /\ outcome = [kind |-> "none", message |-> Undefined, value |-> NoValue]

\* apiRequest(url, { method, payload, timeoutMs, authToken }) is called
ApiRequest ==
    /\ pc = "idle"
    /\ \E m \in HTTPMethod, p \in BOOLEAN, tmo \in 1..MaxTimeout, tok \in AuthTokens :
        /\ (~HasRequestBody(m)) => p
        /\ method' = m
        /\ payloadOk' = p
        /\ timeoutMs' = tmo
        /\ authToken' = tok
    /\ pc' = "start"
    /\ UNCHANGED <<now, timer, aborted, lateAbort, response, parsed, exc, logs,
                   result, arg, outcome>>

\* the request body is serialised, then apiWithTimeout arms the timer and
\* starts the fetch
StartFetch ==
    /\ pc = "start"
    /\ IF HasRequestBody(method) /\ ~payloadOk
       THEN /\ pc' = ThrowTarget("stringify")
            /\ exc' = StringifyFailed
            /\ UNCHANGED timer
       ELSE /\ pc' = "fetching"
            /\ timer' = "armed"
            /\ UNCHANGED exc
    /\ UNCHANGED <<method, payloadOk, timeoutMs, authToken, now, aborted,
                   lateAbort, response, parsed, logs, result, arg, outcome>>

\* a millisecond passes while the call awaits the fetch or the body; a due
\* timer runs before any later moment
Tick ==
    /\ pc \in {"fetching", "reading"}
    /\ now < MaxClock
    /\ ~(timer = "armed" /\ now >= timeoutMs)
    /\ ~aborted
    /\ now' = now + 1
    /\ UNCHANGED <<pc, method, payloadOk, timeoutMs, authToken, timer, aborted,
                   lateAbort, response, parsed, exc, logs, result, arg, outcome>>

\* the setTimeout callback: controller.abort()
TimerFires ==
    /\ timer = "armed"
    /\ now >= timeoutMs
    /\ timer' = "fired"
    /\ aborted' = TRUE
    /\ lateAbort' = (lateAbort \/ pc # "fetching")
    /\ UNCHANGED <<pc, method, payloadOk, timeoutMs, authToken, now, response,
                   parsed, exc, logs, result, arg, outcome>>

\* the fetch resolves with a response; a DELETE answers from its status
FetchResolves ==
    /\ pc = "fetching"
    /\ ~aborted
    /\ \E r \in Responses :
        /\ response' = r
        /\ IF SkipsBody(method)
           THEN /\ result' = DeleteEnvelope(r)
                /\ pc' = "returned"
           ELSE /\ pc' = "reading"
                /\ UNCHANGED result
    /\ timer' = SettleTimer(timer, "resolved")
    /\ UNCHANGED <<method, payloadOk, timeoutMs, authToken, now, aborted,
                   lateAbort, parsed, exc, logs, arg, outcome>>

\* the fetch rejects with a network failure
FetchRejects ==
    /\ pc = "fetching"
    /\ ~aborted
    /\ timer' = SettleTimer(timer, "rejected")
    /\ pc' = ThrowTarget("fetch")
    /\ exc' = FetchFailed
    /\ UNCHANGED <<method, payloadOk, timeoutMs, authToken, now, aborted,
                   lateAbort, response, parsed, logs, result, arg, outcome>>

\* the fetch rejects because its signal was aborted
FetchAborted ==
    /\ pc = "fetching"
    /\ aborted
    /\ timer' = SettleTimer(timer, "aborted")
    /\ pc' = ThrowTarget("fetch")
    /\ exc' = AbortError
    /\ UNCHANGED <<method, payloadOk, timeoutMs, authToken, now, aborted,
                   lateAbort, response, parsed, logs, result, arg, outcome>>

\* await response.json()
ReadBody ==
    /\ pc = "reading"
    /\ IF aborted
       THEN /\ pc' = ThrowTarget("json")
            /\ exc' = AbortError
            /\ UNCHANGED parsed
       ELSE IF ~JsonParses(response.body)
       THEN /\ pc' = ThrowTarget("json")
            /\ exc' = SyntaxError
            /\ UNCHANGED parsed
       ELSE /\ pc' = "parsed"
            /\ parsed' = JsonValue(response.body)
            /\ UNCHANGED exc
    /\ UNCHANGED <<method, payloadOk, timeoutMs, authToken, now, timer, aborted,
                   lateAbort, response, logs, result, arg, outcome>>

\* the parsed body is turned into the envelope; a non-2xx response is logged
\* first; reading a property of a null body throws
Normalize ==
    /\ pc = "parsed"
    /\ logs' = IF Ok(response) THEN logs ELSE logs + 1
    /\ IF GetThrows(parsed)
       THEN /\ pc' = ThrowTarget("normalize")
            /\ exc' = NullAccess
            /\ UNCHANGED result
       ELSE /\ pc' = "returned"
            /\ result' = IF Ok(response)
                         THEN SuccessResult(response, parsed)
                         ELSE ErrorEnvelope(response, parsed)
            /\ UNCHANGED exc
    /\ UNCHANGED <<method, payloadOk, timeoutMs, authToken, now, timer, aborted,
                   lateAbort, response, parsed, arg, outcome>>

\* the catch clause: log, then the envelope of the exception
Catch ==
    /\ pc = "catch"
    /\ logs' = logs + 1
    /\ result' = CatchEnvelope(exc)
    /\ pc' = "returned"
    /\ UNCHANGED <<method, payloadOk, timeoutMs, authToken, now, timer, aborted,
                   lateAbort, response, parsed, exc, arg, outcome>>

\* the caller hands the envelope apiRequest returned to validateApiResponse
ValidateResult ==
    /\ pc = "returned"
    /\ \E rn \in ResourceNames :
        outcome' = validateApiResponse(result, rn)
    /\ arg' = result
    /\ pc' = "done"
    /\ UNCHANGED <<method, payloadOk, timeoutMs, authToken, now, timer, aborted,
                   lateAbort, response, parsed, exc, logs, result>>

\* validateApiResponse is called with an envelope obtained otherwise
ValidateGiven ==
    /\ pc = "idle"
    /\ \E env \in GivenEnvelopes, rn \in ResourceNames :
        /\ arg' = env
        /\ outcome' = validateApiResponse(env, rn)
    /\ pc' = "done"
    /\ UNCHANGED <<method, payloadOk, timeoutMs, authToken, now, timer, aborted,
                   lateAbort, response, parsed, exc, logs, result>>

Next ==
    \/ ApiRequest
    \/ StartFetch
    \/ Tick
    \/ TimerFires
    \/ FetchResolves
    \/ FetchRejects
    \/ FetchAborted
    \/ ReadBody
    \/ Normalize
    \/ Catch
    \/ ValidateResult
    \/ ValidateGiven

Spec == Init /\ [][Next]_vars

----------------------------------------------------------------------------
(* Properties *)

\* apiRequest has returned (the envelope may already have been validated)
Returned == pc = "returned" \/ (pc = "done" /\ arg = result /\ result # NoValue)

\* the fetch of this call resolved with a response
GotResponse == response # NoResponse

IsSuccess(env) == Get(env, "success") = JTrue
IsFailure(env) == Get(env, "success") = JFalse

IsTimeoutEnvelope(env) ==
    /\ IsFailure(env)
    /\ Get(env, "status") = Num(408)
    /\ Get(Get(env, "error"), "name") = Str("TimeoutError")

\* C1: apiRequest never ends by propagating an exception, whatever the verb
\* and whatever the underlying call did (response of any status, malformed
\* body, null body, network failure, abort by the timer); when it has
\* returned, what it returned is an envelope with a boolean success and a
\* numeric status.
C1_NeverRaises ==
    /\ pc # "raised"
    /\ pc = "returned" =>
         /\ result.t = "object"
         /\ (IsSuccess(result) \/ IsFailure(result))
         /\ Get(result, "status").t = "number"

\* a null body made a property read throw and the call still returned
C1_Witness ==
    /\ pc = "returned"
    /\ parsed = JNull
    /\ exc = NullAccess
    /\ IsFailure(result)

\* C2 (as claimed): a call that takes longer than timeoutMs from its start
\* to the moment the body has been read and parsed returns the 408
\* TimeoutError envelope.
C2_Original ==
    (pc = "returned" /\ now > timeoutMs) => IsTimeoutEnvelope(result)

\* C2 (amended): a call whose timer fires, that is whose fetch has not
\* settled when timeoutMs have elapsed, returns the 408 TimeoutError
\* envelope with success = false.
C2_TimerFiredGivesTimeout ==
    (pc = "returned" /\ timer = "fired") => IsTimeoutEnvelope(result)

\* the timer fired while the fetch was pending and the call has returned
C2_Witness ==
    /\ pc = "returned"
    /\ timer = "fired"
    /\ now >= timeoutMs
    /\ exc = AbortError

\* C3 (as claimed): every envelope apiRequest returns has data and no error
\* when success is true, and an error carrying status, name and message and
\* no data when success is false.
C3_Original ==
    pc = "returned" =>
        \/ /\ IsSuccess(result)
           /\ Get(result, "data") # Undefined
           /\ Get(result, "error") = Undefined
        \/ /\ IsFailure(result)
           /\ Get(result, "data") = Undefined
           /\ Get(result, "error").t = "object"
           /\ Get(Get(result, "error"), "status") # Undefined
           /\ Get(Get(result, "error"), "name") # Undefined
           /\ Get(Get(result, "error"), "message") # Undefined

\* C4 (as claimed): a non-DELETE request answered 2xx with a body that has a
\* data field, whatever its value, returns success = true and that value as
\* its data.
C4_Original ==
    (/\ pc = "returned"
     /\ method # "DELETE"
     /\ GotResponse
     /\ Ok(response)
     /\ parsed.t = "object"
     /\ Get(parsed, "data") # Undefined)
    => /\ IsSuccess(result)
       /\ Get(result, "data") = Get(parsed, "data")

\* the normalizer could handle the body: none was read, or it parsed to a
\* value whose properties can be read
BodyHandled ==
    \/ method = "DELETE"
    \/ (parsed # NotParsed /\ ~Nullish(parsed))

\* C5 (as claimed): the envelope of every response with HTTP status 404
\* whose body the normalizer can handle makes handleApiError call notFound()
\* and throw no Error.
C5_Original ==
    (/\ pc = "done"
     /\ GotResponse
     /\ response.status = 404
     /\ BodyHandled)
    => outcome.kind = "notFound"

\* C6 (as claimed): validateApiResponse returns envelope.data whenever
\* success is true and data is present (false, 0 and "" included), and for
\* every other input throws or redirects.
C6_Original ==
    pc = "done" =>
        IF /\ arg.t = "object"
           /\ IsSuccess(arg)
           /\ ~Nullish(Get(arg, "data"))
        THEN outcome.kind = "return" /\ outcome.value = Get(arg, "data")
        ELSE outcome.kind \in {"throw", "notFound"}

\* C7: once the fetch of apiWithTimeout has settled (resolved, rejected by
\* the network, rejected by the abort) no timer of the call is armed, and
\* controller.abort() never runs after the fetch has settled.
C7_TimerCleared ==
    /\ pc \notin {"idle", "start", "fetching"} => timer # "armed"
    /\ ~lateAbort

\* the fetch was rejected by the network before the timer was due
C7_Witness ==
    /\ pc = "catch"
    /\ exc = FetchFailed
    /\ timer = "cleared"
    /\ now < timeoutMs

\* the message the claim expects in a synthesized error
C8_ExpectedMessage ==
    IF Get(parsed, "message") # Undefined THEN Get(parsed, "message")
    ELSE IF response.statusText # "" THEN Str(response.statusText)
    ELSE Str("An error occurred")

\* C8 (as claimed): a non-DELETE request answered non-2xx with a body that
\* carries no structured error object returns an error with the HTTP status,
\* the name "Error" and as message the body's message field, else the status
\* text when not empty, else "An error occurred".
C8_Original ==
    (/\ pc = "returned"
     /\ method # "DELETE"
     /\ GotResponse
     /\ ~Ok(response)
     /\ parsed # NotParsed
     /\ OptGet(parsed, "error").t # "object")
    => /\ IsFailure(result)
       /\ Get(result, "error") =
            ErrorObject(Num(response.status), Str("Error"), C8_ExpectedMessage)

\* C9: a DELETE request whose fetch yields a response never parses the body,
\* and its envelope is fixed by the HTTP status: 2xx gives success = true
\* with that status and data = true; any other status gives a failure with
\* status and error.status equal to it and the message "Failed to delete
\* resource".
C9_DeleteByStatusOnly ==
    (Returned /\ method = "DELETE" /\ GotResponse) =>
        /\ parsed = NotParsed
        /\ Get(result, "status") = Num(response.status)
        /\ IF response.status \in 200..299
           THEN /\ IsSuccess(result)
                /\ Get(result, "data") = JTrue
                /\ Get(result, "error") = Undefined
           ELSE /\ IsFailure(result)
                /\ Get(result, "data") = Undefined
                /\ Get(Get(result, "error"), "status") = Num(response.status)
                /\ Get(Get(result, "error"), "message") =
                     Str("Failed to delete resource")

\* a DELETE answered 404 with a body holding an upstream error object
C9_Witness ==
    /\ pc = "returned"
    /\ method = "DELETE"
    /\ response.status = 404
    /\ response.body.wellFormed
    /\ Truthy(Get(response.body.denotes, "error"))
    /\ IsFailure(result)

\* C10 (as claimed): whenever apiRequest returns an envelope with success =
\* false, console.error has been called during that call.
C10_Original ==
    (pc = "returned" /\ IsFailure(result)) => logs >= 1

====
